---------------------------- MODULE Spec2Model ----------------------------
(***************************************************************************)
(* Model of the net-income-germany crate: the income-tax computation       *)
(* (income_tax.rs), the social-security computation (social_security.rs),  *)
(* the forward calculation `calculate` and the iterative reverse           *)
(* calculation `calculate_reverse` (lib.rs), with the yearly tables of     *)
(* config.rs.                                                              *)
(*                                                                         *)
(* The crate computes with u32, i32, i64 and f32.  TLC's integers are      *)
(* 32-bit signed, so program integers are kept as two-limb numbers         *)
(* <<hi, lo>> (value hi * 2^16 + lo, 0 <= lo < 2^16, hi signed), and f32   *)
(* values are kept as sign / 24-bit significand / exponent with IEEE-754   *)
(* round-to-nearest-even applied after every operation, as the hardware    *)
(* does.                                                                   *)
(***************************************************************************)
EXTENDS Integers, Sequences, FiniteSets, TLC

-----------------------------------------------------------------------------
(* Two-limb integers: <<hi, lo>> is hi * 65536 + lo.                        *)

Limb == 65536

\* The two-limb form of an integer n that TLC can hold.
W(n) == <<n \div Limb, n % Limb>>

WAdd(a, b) ==
  LET lo == a[2] + b[2]
  IN  <<a[1] + b[1] + (lo \div Limb), lo % Limb>>

WSub(a, b) ==
  LET lo == a[2] - b[2]
  IN  <<a[1] - b[1] + (lo \div Limb), lo % Limb>>

WNeg(a) == WSub(<<0, 0>>, a)

\* a * c for a small non-negative factor c (c < 2^14, |a| < 2^33).
WMulSmall(a, c) ==
  LET lo == a[2] * c
  IN  <<a[1] * c + (lo \div Limb), lo % Limb>>

WLt(a, b) == a[1] < b[1] \/ (a[1] = b[1] /\ a[2] < b[2])
WLe(a, b) == a = b \/ WLt(a, b)
WMax(a, b) == IF WLt(a, b) THEN b ELSE a
WMin(a, b) == IF WLt(b, a) THEN b ELSE a
WIsNeg(a) == a[1] < 0

\* floor(a / 2) of a non-negative two-limb number.
WHalf(a) == <<a[1] \div 2, ((a[1] % 2) * Limb + a[2]) \div 2>>

\* std::u32::MAX, std::i32::MAX and std::i32::MIN.
U32_MAX == <<65535, 65535>>
I32_MAX == <<32767, 65535>>
I32_MIN == <<-32768, 0>>

InU32(a) == a[1] >= 0 /\ a[1] < Limb
InI32(a) == a[1] >= -32768 /\ a[1] < 32768

\* Reduction modulo 2^32 (what an overflowing u32 operation leaves in a
\* build without overflow checks, and what `as u32` does to an integer).
WrapU32(a) == <<a[1] % Limb, a[2]>>

\* Two's-complement reinterpretation in 32 bits (`as i32`).
WrapI32(a) ==
  LET h == a[1] % Limb
  IN  <<IF h >= 32768 THEN h - Limb ELSE h, a[2]>>

-----------------------------------------------------------------------------
(* IEEE-754 binary32.  A finite value is (-1)^s * m * 2^e with either      *)
(* 2^23 <= m < 2^24 and -149 <= e <= 104 (normal), or m < 2^23 and         *)
(* e = -149 (subnormal and zero).                                          *)

MinExp == -149
MaxExp == 104
Two23 == 8388608
Two24 == 16777216

Fin(s, m, e) == [c |-> "fin", s |-> s, m |-> m, e |-> e]
Inf(s) == [c |-> "inf", s |-> s, m |-> 0, e |-> 0]
NaN == [c |-> "nan", s |-> 0, m |-> 0, e |-> 0]
Zero(s) == Fin(s, 0, MinExp)

IsNaN(x) == x.c = "nan"
IsInf(x) == x.c = "inf"
IsZero(x) == x.c = "fin" /\ x.m = 0

\* Number of significant bits of n, 0 <= n < 2^31.
BitLen(n) ==
  IF n >= 1073741824 THEN 31 ELSE IF n >= 536870912 THEN 30
  ELSE IF n >= 268435456 THEN 29 ELSE IF n >= 134217728 THEN 28
  ELSE IF n >= 67108864 THEN 27 ELSE IF n >= 33554432 THEN 26
  ELSE IF n >= 16777216 THEN 25 ELSE IF n >= 8388608 THEN 24
  ELSE IF n >= 4194304 THEN 23 ELSE IF n >= 2097152 THEN 22
  ELSE IF n >= 1048576 THEN 21 ELSE IF n >= 524288 THEN 20
  ELSE IF n >= 262144 THEN 19 ELSE IF n >= 131072 THEN 18
  ELSE IF n >= 65536 THEN 17 ELSE IF n >= 32768 THEN 16
  ELSE IF n >= 16384 THEN 15 ELSE IF n >= 8192 THEN 14
  ELSE IF n >= 4096 THEN 13 ELSE IF n >= 2048 THEN 12
  ELSE IF n >= 1024 THEN 11 ELSE IF n >= 512 THEN 10
  ELSE IF n >= 256 THEN 9 ELSE IF n >= 128 THEN 8
  ELSE IF n >= 64 THEN 7 ELSE IF n >= 32 THEN 6
  ELSE IF n >= 16 THEN 5 ELSE IF n >= 8 THEN 4
  ELSE IF n >= 4 THEN 3 ELSE IF n >= 2 THEN 2 ELSE n

\* The rounded significand q1 at exponent e, renormalised when the rounding
\* carried into a 25th bit; overflow gives infinity.
Pack(s, q1, e) ==
  IF q1 = Two24
    THEN (IF e + 1 > MaxExp THEN Inf(s) ELSE Fin(s, Two23, e + 1))
    ELSE (IF e > MaxExp THEN Inf(s) ELSE Fin(s, q1, e))

\* Round to nearest, ties to even: quotient q, remainder r of the division by
\* 2 * half, and whether lower bits were lost before (sticky).
RoundNearestEven(s, q, r, half, e, sticky) ==
  Pack(s, IF r > half \/ (r = half /\ (sticky \/ q % 2 = 1)) THEN q + 1 ELSE q, e)

\* M * 2^E rounded with sh low bits dropped (sh <= 0: nothing is dropped).
RoundShift(s, M, E, sticky, sh) ==
  IF sh <= 0 THEN
    (IF E + sh > MaxExp THEN Inf(s) ELSE Fin(s, M * (2 ^ (0 - sh)), E + sh))
  ELSE IF sh >= 31 THEN Zero(s)
  ELSE RoundNearestEven(s, M \div (2 ^ sh), M % (2 ^ sh), 2 ^ (sh - 1), E + sh, sticky)

\* The bits to drop for a number of n significant bits: down to 24, or more
\* when the result is subnormal (its exponent stays at MinExp).
DropBits(n, E) == IF E + (n - 24) < MinExp THEN MinExp - E ELSE n - 24

\* Round-to-nearest-even of (-1)^s * (M + t) * 2^E to binary32, where
\* 0 <= M < 2^30 and t is a fraction in [0, 1) that is non-zero exactly when
\* sticky holds (then M has at least 26 significant bits).
RoundPack(s, M, E, sticky) ==
  IF M = 0 THEN Zero(s)
  ELSE RoundShift(s, M, E, sticky, DropBits(BitLen(M), E))

\* The significand of a finite non-zero value scaled to 24 bits, and the
\* exponent that goes with it (below MinExp for a subnormal).
NormM(x) == x.m * (2 ^ (24 - BitLen(x.m)))
NormE(x) == x.e - (24 - BitLen(x.m))

Xor(s, t) == IF s = t THEN 0 ELSE 1

\* The 48-bit product hi * 2^24 + lo, cut to 30 bits and a sticky bit.
MulRound(s, hi, lo, E) ==
  RoundPack(s, hi * 64 + (lo \div 262144), E + 18, lo % 262144 # 0)

\* hh * 2^24 + mid * 2^12 + ll as hi * 2^24 + lo.
MulCarry(s, hh, los, E) == MulRound(s, hh + (los \div Two24), los % Two24, E)

MulSum(s, hh, mid, ll, E) ==
  MulCarry(s, hh + (mid \div 4096), ll + (mid % 4096) * 4096, E)

\* The product of two 24-bit significands from their 12-bit halves.
MulParts(s, x1, x0, y1, y0, E) ==
  MulSum(s, x1 * y1, x1 * y0 + x0 * y1, x0 * y0, E)

MulNorm(s, xm, ym, E) ==
  MulParts(s, xm \div 4096, xm % 4096, ym \div 4096, ym % 4096, E)

\* a * b, rounded.
F32Mul(a, b) ==
  IF IsNaN(a) \/ IsNaN(b) THEN NaN
  ELSE IF IsInf(a) \/ IsInf(b) THEN
    (IF IsZero(a) \/ IsZero(b) THEN NaN ELSE Inf(Xor(a.s, b.s)))
  ELSE IF IsZero(a) \/ IsZero(b) THEN Zero(Xor(a.s, b.s))
  ELSE MulNorm(Xor(a.s, b.s), NormM(a), NormM(b), NormE(a) + NormE(b))

\* Long division of 24-bit significands: k more groups of 6 quotient bits,
\* then 3 bits and the sticky bit (27 bits below the integer part in all).
RECURSIVE DivBits(_, _, _, _, _, _)
DivBits(s, q, r, ym, E, k) ==
  IF k = 0 THEN RoundPack(s, q * 8 + ((r * 8) \div ym), E - 27, (r * 8) % ym # 0)
  ELSE DivBits(s, q * 64 + ((r * 64) \div ym), (r * 64) % ym, ym, E, k - 1)

DivNorm(s, xm, ym, E) == DivBits(s, xm \div ym, xm % ym, ym, E, 4)

\* a / b, rounded.
F32Div(a, b) ==
  IF IsNaN(a) \/ IsNaN(b) THEN NaN
  ELSE IF IsInf(a) THEN (IF IsInf(b) THEN NaN ELSE Inf(Xor(a.s, b.s)))
  ELSE IF IsInf(b) THEN Zero(Xor(a.s, b.s))
  ELSE IF IsZero(b) THEN (IF IsZero(a) THEN NaN ELSE Inf(Xor(a.s, b.s)))
  ELSE IF IsZero(a) THEN Zero(Xor(a.s, b.s))
  ELSE DivNorm(Xor(a.s, b.s), NormM(a), NormM(b), NormE(a) - NormE(b))

\* |x| < |y| for finite x, y (canonical forms compare by exponent, then
\* significand).
MagLt(x, y) == x.e < y.e \/ (x.e = y.e /\ x.m < y.m)

\* v shifted right by d bits, its last bit set when a one was shifted out.
ShiftJam(v, d) ==
  IF d >= 28 THEN (IF v = 0 THEN 0 ELSE 1)
  ELSE IF v % (2 ^ d) # 0 /\ (v \div (2 ^ d)) % 2 = 0
    THEN (v \div (2 ^ d)) + 1
    ELSE v \div (2 ^ d)

AddRound(s, S, E) == IF S = 0 THEN Zero(0) ELSE RoundPack(s, S, E, FALSE)

\* big + sml or big - sml for |big| >= |sml|, with three guard bits.
AddAligned(big, sml, same) ==
  AddRound(big.s,
           IF same THEN big.m * 8 + ShiftJam(sml.m * 8, big.e - sml.e)
                   ELSE big.m * 8 - ShiftJam(sml.m * 8, big.e - sml.e),
           big.e - 3)

\* a + b, rounded.
F32Add(a, b) ==
  IF IsNaN(a) \/ IsNaN(b) THEN NaN
  ELSE IF IsInf(a) THEN (IF IsInf(b) /\ a.s # b.s THEN NaN ELSE a)
  ELSE IF IsInf(b) THEN b
  ELSE IF IsZero(a) /\ IsZero(b) THEN Zero(IF a.s = 1 /\ b.s = 1 THEN 1 ELSE 0)
  ELSE IF MagLt(a, b) THEN AddAligned(b, a, a.s = b.s)
  ELSE AddAligned(a, b, a.s = b.s)

F32Neg(a) == IF IsNaN(a) THEN NaN ELSE [a EXCEPT !.s = 1 - a.s]

F32Sub(a, b) == F32Add(a, F32Neg(b))

\* a < b as f32 compares (false when either is NaN; -0 = +0).
F32Lt(a, b) ==
  IF IsNaN(a) \/ IsNaN(b) THEN FALSE
  ELSE IF IsZero(a) /\ IsZero(b) THEN FALSE
  ELSE IF a.s # b.s THEN a.s = 1
  ELSE IF a.s = 0
    THEN (IF IsInf(a) THEN FALSE ELSE IF IsInf(b) THEN TRUE ELSE MagLt(a, b))
    ELSE (IF IsInf(b) THEN FALSE ELSE IF IsInf(a) THEN TRUE ELSE MagLt(b, a))

\* f32::min: the other operand when one is NaN.
F32Min(a, b) ==
  IF IsNaN(a) THEN b
  ELSE IF IsNaN(b) THEN a
  ELSE IF F32Lt(b, a) THEN b ELSE a

\* `n as f32` for a non-negative two-limb n < 2^33.
F32FromMag(s, n) ==
  IF n[1] < 16384 THEN RoundPack(s, n[1] * Limb + n[2], 0, FALSE)
  ELSE RoundPack(s, n[1] * 4096 + (n[2] \div 16), 4, n[2] % 16 # 0)

\* `n as f32` for a u32 n.
F32FromU32(n) == F32FromMag(0, n)

\* `n as f32` for an i32 n.
F32FromI32(n) == IF WIsNeg(n) THEN F32FromMag(1, WNeg(n)) ELSE F32FromMag(0, n)

\* m * 2^e as a two-limb number (0 <= e <= 8).
ShiftLeftW(m, p) ==
  <<(m \div Limb) * p + (((m % Limb) * p) \div Limb), ((m % Limb) * p) % Limb>>

\* `x as u32`: truncation toward zero, saturating, NaN to 0.
F32ToU32(x) ==
  IF IsNaN(x) THEN <<0, 0>>
  ELSE IF x.s = 1 THEN <<0, 0>>
  ELSE IF IsInf(x) THEN U32_MAX
  ELSE IF x.m = 0 THEN <<0, 0>>
  ELSE IF x.e >= 9 THEN U32_MAX
  ELSE IF x.e >= 0 THEN ShiftLeftW(x.m, 2 ^ x.e)
  ELSE IF x.e <= -24 THEN <<0, 0>>
  ELSE W(x.m \div (2 ^ (0 - x.e)))

\* The f32 nearest to the decimal literal n / d (n, d < 2^24): a correctly
\* rounded division of two exactly representable integers is the correctly
\* rounded value of the literal.
Dec(n, d) == F32Div(F32FromU32(W(n)), F32FromU32(W(d)))

-----------------------------------------------------------------------------
(* config.rs: the yearly tables.  A decimal literal of the source is the    *)
(* f32 nearest to it.                                                       *)

TaxRange(lower, upper, rmin, rmax) ==
  [lower_limit |-> lower, upper_limit |-> upper, rate_min |-> rmin, rate_max |-> rmax]

Config2025 ==
  [retirement_insurance |-> [premium |-> Dec(186, 1000), max_income |-> Dec(8050, 1)],
   health_insurance |->
     [premium_general |-> Dec(146, 1000),
      premium_general_reduced |-> Dec(14, 100),
      premium_additional |-> Dec(245, 10000),
      premium_nursing |-> Dec(36, 1000),
      premium_nursing_additional |-> Dec(6, 1000),
      min_income |-> Dec(124832, 100),
      max_income |-> Dec(55125, 10)],
   unemployment_insurance |-> [premium |-> Dec(26, 1000), max_income |-> Dec(8050, 1)],
   income_tax |->
     [tax_ranges |->
        <<TaxRange(W(0), W(12096), Dec(0, 100), Dec(0, 100)),
          TaxRange(W(12096), W(17444), Dec(14, 100), Dec(2397, 10000)),
          TaxRange(W(17444), W(68480), Dec(2397, 10000), Dec(42, 100)),
          TaxRange(W(68480), W(277825), Dec(42, 100), Dec(42, 100)),
          TaxRange(W(277825), U32_MAX, Dec(45, 100), Dec(45, 100))>>,
      solidary_addition_config |->
        [exemption_level |-> W(19950), rate |-> Dec(55, 1000),
         max_percentage |-> Dec(119, 1000)]]]

Config2024 ==
  [retirement_insurance |-> [premium |-> Dec(186, 1000), max_income |-> Dec(7550, 1)],
   health_insurance |->
     [premium_general |-> Dec(146, 1000),
      premium_general_reduced |-> Dec(14, 100),
      premium_additional |-> Dec(12, 1000),
      premium_nursing |-> Dec(34, 1000),
      premium_nursing_additional |-> Dec(6, 1000),
      min_income |-> Dec(117833, 100),
      max_income |-> Dec(5175, 1)],
   unemployment_insurance |-> [premium |-> Dec(26, 1000), max_income |-> Dec(7550, 1)],
   income_tax |->
     [tax_ranges |->
        <<TaxRange(W(0), W(11784), Dec(0, 100), Dec(0, 100)),
          TaxRange(W(11784), W(17005), Dec(14, 100), Dec(2397, 10000)),
          TaxRange(W(17005), W(66760), Dec(2397, 10000), Dec(42, 100)),
          TaxRange(W(66760), W(277825), Dec(42, 100), Dec(42, 100)),
          TaxRange(W(277825), U32_MAX, Dec(45, 100), Dec(45, 100))>>,
      solidary_addition_config |->
        [exemption_level |-> W(18130), rate |-> Dec(55, 1000),
         max_percentage |-> Dec(119, 1000)]]]

Years == {2024, 2025}

\* config::create for a supported year.
create(year) == IF year = 2025 THEN Config2025 ELSE Config2024

-----------------------------------------------------------------------------
(* income_tax.rs                                                            *)

F32Two == Dec(2, 1)
F32Zero == Zero(0)

\* TaxRange::range.  upper_limit >= lower_limit in every table of config.rs.
range(tax_range) == WrapU32(WSub(tax_range.upper_limit, tax_range.lower_limit))

\* deduct_tax_for_one_range without its first check, in a build where the
\* u32 subtraction wraps.
deduct_tax_unguarded(income, tax_range) ==
  LET taxed_income ==
        F32FromU32(WMin(WrapU32(WSub(income, tax_range.lower_limit)), range(tax_range)))
      effective_rate_diff ==
        F32Mul(F32Div(taxed_income, F32FromU32(range(tax_range))),
               F32Sub(tax_range.rate_max, tax_range.rate_min))
  IN  F32Mul(taxed_income,
             F32Add(tax_range.rate_min, F32Div(effective_rate_diff, F32Two)))

\* deduct_tax_for_one_range without the limit of the range: all of the
\* income above the lower limit is taxed in every range.
deduct_tax_unlimited(income, tax_range) ==
  IF WLe(income, tax_range.lower_limit) THEN F32Zero
  ELSE
    LET taxed_income == F32FromU32(WSub(income, tax_range.lower_limit))
        effective_rate_diff ==
          F32Mul(F32Div(taxed_income, F32FromU32(range(tax_range))),
                 F32Sub(tax_range.rate_max, tax_range.rate_min))
    IN  F32Mul(taxed_income,
               F32Add(tax_range.rate_min, F32Div(effective_rate_diff, F32Two)))

deduct_tax_for_one_range(income, tax_range) ==
  IF WLe(income, tax_range.lower_limit) THEN F32Zero
  ELSE
    LET taxed_u32 == WMin(WSub(income, tax_range.lower_limit), range(tax_range))
        income_range == F32FromU32(range(tax_range))
        taxed_income == F32FromU32(taxed_u32)
        rate_diff == F32Sub(tax_range.rate_max, tax_range.rate_min)
        effective_rate_diff == F32Mul(F32Div(taxed_income, income_range), rate_diff)
        effective_rate == F32Add(tax_range.rate_min, F32Div(effective_rate_diff, F32Two))
    IN  F32Mul(taxed_income, effective_rate)

\* The loop of calculate_income_tax: tax_sum after the ranges i..Len.
RECURSIVE SumRanges(_, _, _, _)
SumRanges(tax_ranges, i, income, tax_sum) ==
  IF i > Len(tax_ranges) THEN tax_sum
  ELSE SumRanges(tax_ranges, i + 1, income,
                 F32Add(tax_sum, deduct_tax_for_one_range(income, tax_ranges[i])))

\* The end of calculate_income_tax with the doubling done in f32, before the
\* truncation: `(tax_sum * 2.0) as u32`.
tax_sum_doubled_first(tax_sum, together) ==
  IF together
    THEN [v |-> F32ToU32(F32Mul(tax_sum, F32Two)), ovf |-> FALSE]
    ELSE [v |-> F32ToU32(tax_sum), ovf |-> FALSE]

\* The end of calculate_income_tax: `tax_sum as u32 * 2` or `tax_sum as u32`.
\* The value and whether the u32 multiplication overflowed (v is then the
\* wrapped value).
tax_sum_as_u32(tax_sum, together) ==
  IF together
    THEN [v |-> WrapU32(WMulSmall(F32ToU32(tax_sum), 2)),
          ovf |-> ~InU32(WMulSmall(F32ToU32(tax_sum), 2))]
    ELSE [v |-> F32ToU32(tax_sum), ovf |-> FALSE]

calculate_income_tax(config, income, together) ==
  tax_sum_as_u32(SumRanges(config.tax_ranges, 1,
                           IF together THEN WHalf(income) ELSE income, F32Zero),
                 together)

\* calculate_solidarity_addition with its exemption test the wrong way round
\* (`tax >= tax_exemption_level` returns 0), in a build where the u32
\* subtraction wraps.
solidarity_addition_flipped(tax, together, solidarity_addition_config) ==
  LET tax_exemption_level ==
        IF together THEN WMulSmall(solidarity_addition_config.exemption_level, 2)
        ELSE solidarity_addition_config.exemption_level
  IN  IF WLe(tax_exemption_level, tax) THEN <<0, 0>>
      ELSE F32ToU32(F32Min(F32Mul(F32FromU32(tax), solidarity_addition_config.rate),
                           F32Mul(F32FromU32(WrapU32(WSub(tax, tax_exemption_level))),
                                  solidarity_addition_config.max_percentage)))

\* exemption_level * 2 is 39900 or 36260 in the tables of config.rs.
calculate_solidarity_addition(tax, together, solidarity_addition_config) ==
  LET tax_exemption_level ==
        IF together THEN WrapU32(WMulSmall(solidarity_addition_config.exemption_level, 2))
        ELSE solidarity_addition_config.exemption_level
  IN  IF WLt(tax, tax_exemption_level) THEN <<0, 0>>
      ELSE
        LET max_solidarity_addition ==
              F32Mul(F32FromU32(WrapU32(WSub(tax, tax_exemption_level))),
                     solidarity_addition_config.max_percentage)
            solidarity_addition == F32Mul(F32FromU32(tax), solidarity_addition_config.rate)
        IN  F32ToU32(F32Min(solidarity_addition, max_solidarity_addition))

\* The end of income_tax::calculate: `tax + tax_solidarity` in u32.
sum_of_taxes(tax, tax_solidarity) ==
  [tax |-> tax.v, tax_solidarity |-> tax_solidarity,
   v |-> WrapU32(WAdd(tax.v, tax_solidarity)),
   ovf |-> tax.ovf \/ ~InU32(WAdd(tax.v, tax_solidarity))]

with_solidarity(tax, together, solidarity_addition_config) ==
  sum_of_taxes(tax, calculate_solidarity_addition(tax.v, together,
                                                  solidarity_addition_config))

\* income_tax::calculate: base tax, surtax, their u32 sum.
income_tax_calculate(config, taxable_income, together) ==
  with_solidarity(calculate_income_tax(config, taxable_income, together),
                  together, config.solidary_addition_config)

-----------------------------------------------------------------------------
(* social_security.rs                                                       *)

F32Twelve == Dec(12, 1)

\* Option<u32>::None of tax_data.fixed_retirement.
None == <<-1, -1>>

calculate_social_insurance(yearly_income, premium_percentage, max_monthly_value) ==
  LET effective_income ==
        F32Min(F32FromU32(yearly_income), F32Mul(max_monthly_value, F32Twelve))
  IN  F32Mul(effective_income, premium_percentage)

\* calculate_health_insurance_premium with the employer paying half of the
\* nursing surcharge as well.
health_insurance_premium_all_halved(health_insurance_config, tax_data) ==
  IF tax_data.self_employed
    THEN F32Add(F32Add(F32Add(health_insurance_config.premium_general_reduced,
                              health_insurance_config.premium_additional),
                       health_insurance_config.premium_nursing),
                health_insurance_config.premium_nursing_additional)
    ELSE F32Div(F32Add(F32Add(F32Add(health_insurance_config.premium_general,
                                     health_insurance_config.premium_additional),
                              health_insurance_config.premium_nursing),
                       health_insurance_config.premium_nursing_additional),
                F32Two)

calculate_health_insurance_premium(health_insurance_config, tax_data) ==
  IF tax_data.self_employed
    THEN F32Add(F32Add(F32Add(health_insurance_config.premium_general_reduced,
                              health_insurance_config.premium_additional),
                       health_insurance_config.premium_nursing),
                health_insurance_config.premium_nursing_additional)
    ELSE F32Add(F32Div(F32Add(F32Add(health_insurance_config.premium_general,
                                     health_insurance_config.premium_additional),
                              health_insurance_config.premium_nursing),
                       F32Two),
                health_insurance_config.premium_nursing_additional)

calculate_retirement_insurance_premium(retirement_insurance_config, tax_data) ==
  IF tax_data.self_employed
    THEN retirement_insurance_config.premium
    ELSE F32Div(retirement_insurance_config.premium, F32Two)

\* The income the health insurance is calculated on: for the self-employed
\* at least `(min_income * 12.0) as u32`.
income_for_health_insurance(health_insurance_config, tax_data) ==
  IF tax_data.self_employed
    THEN WMax(tax_data.income,
              F32ToU32(F32Mul(health_insurance_config.min_income, F32Twelve)))
    ELSE tax_data.income

health_insurance_of(health_insurance_config, tax_data) ==
  calculate_social_insurance(
    income_for_health_insurance(health_insurance_config, tax_data),
    calculate_health_insurance_premium(health_insurance_config, tax_data),
    health_insurance_config.max_income)

\* `fixed_retirement * 12` does not fit u32.
fixed_retirement_overflows(tax_data) ==
  tax_data.fixed_retirement # None /\ ~InU32(WMulSmall(tax_data.fixed_retirement, 12))

\* `(fixed_retirement * 12) as f32`, the product wrapped to u32, or the
\* percentage of the income.
retirement_insurance_of(retirement_insurance_config, tax_data) ==
  IF tax_data.fixed_retirement # None
    THEN F32FromU32(WrapU32(WMulSmall(tax_data.fixed_retirement, 12)))
    ELSE calculate_social_insurance(
           tax_data.income,
           calculate_retirement_insurance_premium(retirement_insurance_config, tax_data),
           retirement_insurance_config.max_income)

unemployment_insurance_of(unemployment_insurance_config, tax_data) ==
  IF tax_data.self_employed THEN F32Zero
  ELSE calculate_social_insurance(
         tax_data.income,
         F32Div(unemployment_insurance_config.premium, F32Two),
         unemployment_insurance_config.max_income)

\* `(health_insurance + retirement_insurance + unemployment_insurance) as u32`
total_as_u32(health_insurance, retirement_insurance, unemployment_insurance) ==
  F32ToU32(F32Add(F32Add(health_insurance, retirement_insurance),
                  unemployment_insurance))

\* social_security::calculate: the total and whether fixed_retirement * 12
\* overflowed u32.
social_security_calculate(health_insurance_config, retirement_insurance_config, unemployment_insurance_config, tax_data) ==
  [v |-> total_as_u32(health_insurance_of(health_insurance_config, tax_data),
                      retirement_insurance_of(retirement_insurance_config, tax_data),
                      unemployment_insurance_of(unemployment_insurance_config, tax_data)),
   ovf |-> fixed_retirement_overflows(tax_data)]

-----------------------------------------------------------------------------
(* The state: one run of the library under a configuration and a build.     *)

VARIABLES
  year,             \* the year whose configuration is in use
  overflow_checks,  \* the build: TRUE panics on integer overflow, FALSE wraps
  input,            \* TaxData of the current call
  pc,               \* "idle", or the place of calculate_reverse
  result,           \* the Result of the last call of calculate
  estimation,       \* calculate_reverse: the f32 estimation
  visited,          \* calculate_reverse: the estimations of the earlier iterations
  iterations,       \* calculate_reverse: iterations done
  gross,            \* the gross income a round trip started from, or None
  taxable_income,   \* income_tax::calculate: its argument
  together,         \* income_tax::calculate: its argument
  taxes,            \* income_tax::calculate: its result
  social,           \* social_security::calculate: its result and its three premiums
  offset            \* how far the argument was raised from its starting point

vars == <<year, overflow_checks, input, pc, result, estimation, visited,
          iterations, gross, taxable_income, together, taxes, social, offset>>

-----------------------------------------------------------------------------
(* lib.rs                                                                   *)

ErrTooLarge ==
  [kind |-> "Err", msg |-> "Input values are too large to fit for the signed output."]

\* An arithmetic overflow in a build with overflow checks.
Panic == [kind |-> "Panic"]

\* The magnitude check at the head of calculate.
too_large(tax_data) ==
  /\ WLt(tax_data.expenses, tax_data.income)
  /\ WLt(I32_MAX, WSub(tax_data.income, tax_data.expenses))

\* The u32 taxable income of calculate, from the social security total.
taxable_income_of(tax_data, social_security) ==
  LET deductions == WrapU32(WAdd(social_security, tax_data.expenses))
  IN  IF WLt(deductions, tax_data.income)
        THEN WSub(tax_data.income, deductions)
        ELSE <<0, 0>>

\* The end of calculate: the TaxResult, or the panic of an overflow that
\* happened on the way in a build with overflow checks.
tax_result_of(tax_data, social_security, taxes_) ==
  IF overflow_checks
     /\ (social_security.ovf
         \/ ~InU32(WAdd(social_security.v, tax_data.expenses))
         \/ taxes_.ovf)
    THEN Panic
    ELSE [kind |-> "Ok",
          gross_income |-> WrapI32(tax_data.income),
          net_income |->
            WrapI32(WSub(WSub(WSub(tax_data.income, tax_data.expenses),
                              social_security.v), taxes_.v)),
          social_security_taxes |-> social_security.v,
          income_taxes |-> taxes_.v]

\* calculate from the social security total on.
calculate_taxes(config, tax_data, social_security) ==
  tax_result_of(tax_data, social_security,
                income_tax_calculate(config.income_tax,
                                     taxable_income_of(tax_data, social_security.v),
                                     tax_data.married))

\* calculate with the size check made last, after the computations.
calculate_check_last(config, tax_data) ==
  IF calculate_taxes(config, tax_data,
                     social_security_calculate(config.health_insurance,
                                               config.retirement_insurance,
                                               config.unemployment_insurance,
                                               tax_data)) = Panic
    THEN Panic
  ELSE IF too_large(tax_data) THEN ErrTooLarge
  ELSE calculate_taxes(config, tax_data,
                       social_security_calculate(config.health_insurance,
                                                 config.retirement_insurance,
                                                 config.unemployment_insurance,
                                                 tax_data))

calculate(config, tax_data) ==
  IF too_large(tax_data) THEN ErrTooLarge
  ELSE calculate_taxes(config, tax_data,
                       social_security_calculate(config.health_insurance,
                                                 config.retirement_insurance,
                                                 config.unemployment_insurance,
                                                 tax_data))

F32One == Dec(1, 1)

\* calculate_reverse before its loop.
first_estimation(tax_data) == F32Mul(F32FromU32(tax_data.income), Dec(15, 10))

\* The estimation after an iteration with this estimation_difference.
next_estimation(estimation_, estimation_difference) ==
  F32Mul(estimation_,
         F32Sub(F32One, F32Div(F32FromI32(estimation_difference), estimation_)))

\* The end of an iteration: difference is net_income - income as i32 before
\* it is narrowed to i32.
reverse_compare(estimation_, tax_result, difference) ==
  IF overflow_checks /\ ~InI32(difference)
    THEN [pc |-> "panic", result |-> Panic, estimation |-> estimation_]
  ELSE IF WrapI32(difference) = <<0, 0>>
    THEN [pc |-> "returned", result |-> tax_result,
          estimation |-> next_estimation(estimation_, WrapI32(difference))]
  ELSE [pc |-> "loop", result |-> tax_result,
        estimation |-> next_estimation(estimation_, WrapI32(difference))]

\* An iteration from the result of calculate on.
reverse_check(tax_data, estimation_, tax_result) ==
  IF tax_result.kind = "Err"
    THEN [pc |-> "error", result |-> tax_result, estimation |-> estimation_]
  ELSE IF tax_result.kind = "Panic"
    THEN [pc |-> "panic", result |-> tax_result, estimation |-> estimation_]
  ELSE reverse_compare(estimation_, tax_result,
                       WSub(tax_result.net_income, WrapI32(tax_data.income)))

\* One iteration of the loop of calculate_reverse: what it leaves (the next
\* estimation, the result of calculate) and how it ends: "loop" to go on,
\* "returned" (Ok), "error" (the Err of calculate), "panic".
reverse_iteration(config, tax_data, estimation_) ==
  reverse_check(tax_data, estimation_,
                calculate(config, [tax_data EXCEPT !.income = F32ToU32(estimation_)]))

-----------------------------------------------------------------------------
(* Inputs.  Arguments start at the places where the tables change           *)
(* behaviour (bracket limits, the surtax exemption, the contribution caps,  *)
(* 2^24 where f32 stops holding every integer, 2^31 and 2^32 where the      *)
(* integer types end) and are raised from there one unit at a time.         *)

\* How far an argument is raised from its starting point.
MaxOffset == 12

\* How many iterations of calculate_reverse are followed.
MaxIterations == 40

NoResult == [kind |-> "None"]

TaxData(income, expenses, fixed_retirement, self_employed, married) ==
  [income |-> income, expenses |-> expenses, fixed_retirement |-> fixed_retirement,
   self_employed |-> self_employed, married |-> married]

\* 4294967285 = u32::MAX - 10, 2147483640 = i32::MAX - 7.
TaxableStarts ==
  {<<0, 0>>, W(11780), W(12090), W(17000), W(23575), W(24185), W(27530), W(68485),
   W(73475), W(136975), W(146955), W(277820), W(555645), W(5400340), W(16777210),
   <<32767, 65528>>, <<65535, 65525>>}

IncomeStarts ==
  {<<0, 0>>, W(15420), W(30845), W(90295), <<32767, 65533>>, <<65535, 65525>>}

\* 4000000000 and u32::MAX.
ExpensesSet == {<<0, 0>>, W(1500), <<61035, 10240>>, U32_MAX}

\* No fixed rate, 800 a month, and 400000000 a month (times 12 is above u32::MAX).
FixedRetirementSet == {None, W(800), <<6103, 33792>>}

\* Net incomes asked of calculate_reverse and gross incomes of round trips;
\* 2331395014 is above i32::MAX.
ReverseIncomes ==
  {<<0, 0>>, W(1), W(1911), W(15422), W(43000), W(60000), <<35574, 17350>>}

ReverseExpenses == {<<0, 0>>, W(1500), <<61035, 10240>>}

-----------------------------------------------------------------------------
(* social_security::calculate on rising incomes.                            *)

\* Incomes below the minimum income of the self-employed (12 * 1178.33 and
\* 12 * 1248.32), the yearly limits (62100, 66150, 90600, 96600), 2^24 and
\* u32::MAX.
SocialStarts ==
  {<<0, 0>>, W(14130), W(14970), W(62090), W(66140), W(90590), W(96590),
   W(16777210), <<65535, 65525>>}

\* FixedRetirementSet and 5592407 a month (times 12 is no f32 value).
SocialFixedSet == FixedRetirementSet \cup {W(5592407)}

\* What a call of social_security::calculate leaves: a panic, or Ok with the
\* total v, next to the three premiums it summed.
social_security_outcome(config, tax_data) ==
  IF overflow_checks /\ fixed_retirement_overflows(tax_data) THEN Panic
  ELSE [kind |-> "Ok",
        v |-> social_security_calculate(config.health_insurance,
                                        config.retirement_insurance,
                                        config.unemployment_insurance, tax_data).v,
        health_insurance |-> health_insurance_of(config.health_insurance, tax_data),
        retirement_insurance |->
          retirement_insurance_of(config.retirement_insurance, tax_data),
        unemployment_insurance |->
          unemployment_insurance_of(config.unemployment_insurance, tax_data)]

SocialInit ==
  /\ year \in Years
  /\ overflow_checks \in BOOLEAN
  /\ \E i \in SocialStarts, f \in SocialFixedSet, se \in BOOLEAN :
       input = TaxData(i, <<0, 0>>, f, se, FALSE)
  /\ offset = 0
  /\ social = social_security_outcome(create(year), input)
  /\ result = NoResult
  /\ pc = "idle"
  /\ estimation = F32Zero
  /\ visited = {}
  /\ iterations = 0
  /\ gross = None
  /\ taxable_income = <<0, 0>>
  /\ together = FALSE
  /\ taxes = NoResult

\* The next call, with the income one higher and everything else the same.
SocialCall ==
  /\ offset < MaxOffset
  /\ WLt(input.income, U32_MAX)
  /\ input' = [input EXCEPT !.income = WAdd(input.income, W(1))]
  /\ offset' = offset + 1
  /\ social' = social_security_outcome(create(year), input')
  /\ UNCHANGED <<year, overflow_checks, pc, result, estimation, visited, iterations,
                 gross, taxable_income, together, taxes>>

SocialNext == SocialCall

SocialSpec == SocialInit /\ [][SocialNext]_vars

-----------------------------------------------------------------------------
(* income_tax::calculate on rising taxable incomes.                         *)

TaxInit ==
  /\ year \in Years
  /\ overflow_checks \in BOOLEAN
  /\ together \in BOOLEAN
  /\ taxable_income \in TaxableStarts
  /\ offset = 0
  /\ taxes = income_tax_calculate(create(year).income_tax, taxable_income, together)
  /\ input = TaxData(<<0, 0>>, <<0, 0>>, None, FALSE, FALSE)
  /\ pc = "idle"
  /\ result = NoResult
  /\ estimation = F32Zero
  /\ visited = {}
  /\ iterations = 0
  /\ gross = None
  /\ social = NoResult

\* The next call, with the taxable income one higher.
IncomeTaxCall ==
  /\ offset < MaxOffset
  /\ WLt(taxable_income, U32_MAX)
  /\ taxable_income' = WAdd(taxable_income, W(1))
  /\ offset' = offset + 1
  /\ taxes' = income_tax_calculate(create(year).income_tax, taxable_income', together)
  /\ UNCHANGED social
  /\ UNCHANGED <<year, overflow_checks, together, input, pc, result, estimation,
                 visited, iterations, gross>>

\* The next call, at the next starting point above.
IncomeTaxJump ==
  /\ \E t \in TaxableStarts :
       /\ WLt(taxable_income, t)
       /\ \A u \in TaxableStarts : WLt(taxable_income, u) => WLe(t, u)
       /\ taxable_income' = t
  /\ offset' = 0
  /\ taxes' = income_tax_calculate(create(year).income_tax, taxable_income', together)
  /\ UNCHANGED social
  /\ UNCHANGED <<year, overflow_checks, together, input, pc, result, estimation,
                 visited, iterations, gross>>

TaxNext == IncomeTaxCall \/ IncomeTaxJump

TaxSpec == TaxInit /\ [][TaxNext]_vars

-----------------------------------------------------------------------------
(* calculate on rising gross incomes.                                       *)

Init ==
  /\ year \in Years
  /\ overflow_checks \in BOOLEAN
  /\ \E i \in IncomeStarts, e \in ExpensesSet, f \in FixedRetirementSet,
        se \in BOOLEAN, m \in BOOLEAN :
       input = TaxData(i, e, f, se, m)
  /\ offset = 0
  /\ result = calculate(create(year), input)
  /\ pc = "idle"
  /\ estimation = F32Zero
  /\ visited = {}
  /\ iterations = 0
  /\ gross = None
  /\ social = NoResult
  /\ taxable_income = <<0, 0>>
  /\ together = FALSE
  /\ taxes = NoResult

\* The next call, with the income one higher and everything else the same.
Calculate ==
  /\ offset < MaxOffset
  /\ WLt(input.income, U32_MAX)
  /\ input' = [input EXCEPT !.income = WAdd(input.income, W(1))]
  /\ offset' = offset + 1
  /\ result' = calculate(create(year), input')
  /\ UNCHANGED social
  /\ UNCHANGED <<year, overflow_checks, pc, estimation, visited, iterations, gross,
                 taxable_income, together, taxes>>

Next == Calculate

Spec == Init /\ [][Next]_vars

-----------------------------------------------------------------------------
(* calculate_reverse, one loop iteration per step, called on a net income   *)
(* or on the net income that calculate returned for a gross income.         *)

ReverseInit ==
  /\ year \in Years
  /\ overflow_checks \in BOOLEAN
  /\ \E i \in ReverseIncomes, e \in ReverseExpenses, se \in BOOLEAN, m \in BOOLEAN :
       input = TaxData(i, e, None, se, m)
  /\ pc = "idle"
  /\ result = NoResult
  /\ estimation = F32Zero
  /\ visited = {}
  /\ iterations = 0
  /\ gross = None
  /\ social = NoResult
  /\ offset = 0
  /\ taxable_income = <<0, 0>>
  /\ together = FALSE
  /\ taxes = NoResult

\* calculate_reverse is called with the input as it is.
ReverseCall ==
  /\ pc = "idle"
  /\ pc' = "loop"
  /\ estimation' = first_estimation(input)
  /\ UNCHANGED social
  /\ UNCHANGED <<year, overflow_checks, input, result, visited, iterations, gross,
                 taxable_income, together, taxes, offset>>

\* calculate, then calculate_reverse with the income replaced by the net
\* income (test_reverse_tax_calculation).
RoundTrip ==
  /\ pc = "idle"
  /\ \E forward \in {calculate(create(year), input)} :
         /\ forward.kind = "Ok"
         /\ ~WIsNeg(forward.net_income)
         /\ input' = [input EXCEPT !.income = forward.net_income]
         /\ result' = forward
  /\ gross' = input.income
  /\ pc' = "loop"
  /\ estimation' = first_estimation(input')
  /\ UNCHANGED social
  /\ UNCHANGED <<year, overflow_checks, visited, iterations, taxable_income,
                 together, taxes, offset>>

\* One iteration.  The loop keeps no state but the estimation, so an
\* estimation that comes back means the loop never ends: "diverged".
ReverseIterate ==
  /\ pc = "loop"
  /\ iterations < MaxIterations
  /\ \E it \in {reverse_iteration(create(year), input, estimation)} :
         /\ result' = it.result
         /\ estimation' = it.estimation
         /\ pc' = IF it.pc = "loop" /\ it.estimation \in (visited \cup {estimation})
                    THEN "diverged" ELSE it.pc
  /\ visited' = visited \cup {estimation}
  /\ iterations' = iterations + 1
  /\ UNCHANGED social
  /\ UNCHANGED <<year, overflow_checks, input, gross, taxable_income, together,
                 taxes, offset>>

ReverseNext == ReverseCall \/ RoundTrip \/ ReverseIterate

ReverseSpec == ReverseInit /\ [][ReverseNext]_vars

-----------------------------------------------------------------------------
(* calculate_reverse (ReverseSpec).                                         *)

\* C1: whenever calculate_reverse returns an outcome for a target net income
\* T, the outcome is what calculate returns for the outcome's gross_income
\* (everything else the same), and its net_income equals T as integers.
C1_ReverseReproducesTarget ==
  pc = "returned" =>
    /\ result = calculate(create(year),
                          [input EXCEPT !.income = WrapU32(result.gross_income)])
    /\ result.net_income = input.income

\* C2: calculate_reverse terminates on every input; it never iterates
\* forever.  The next estimation depends on the estimation alone, so a loop
\* that finds an estimation again ("diverged") never ends.
C2_ReverseTerminates == pc # "diverged"

\* C3: round trip: calculate_reverse called on the net income that calculate
\* returned for the gross income G returns a gross_income that differs from G
\* by at most 1.
C3_RoundTripWithinOne ==
  (pc = "returned" /\ gross # None) =>
    /\ WLe(WSub(result.gross_income, gross), W(1))
    /\ WLe(WSub(gross, result.gross_income), W(1))

-----------------------------------------------------------------------------
(* calculate (Spec).                                                        *)

\* C4: calculate returns the 'too large' error, and nothing else, for every
\* input whose income minus expenses is above 2^31 - 1; the check comes
\* before the computations, so nothing they do (a panic of theirs included)
\* is the result.
C4_TooLargeFirst ==
  WLt(I32_MAX, WSub(input.income, input.expenses)) => result = ErrTooLarge

\* The size check decided a call whose computations would have overflowed:
\* a fixed retirement rate that times 12 is above u32::MAX, overflow checks on.
C4_Witness ==
  /\ WLt(I32_MAX, WSub(input.income, input.expenses))
  /\ overflow_checks
  /\ input.fixed_retirement = <<6103, 33792>>
  /\ offset > 0
  /\ result = ErrTooLarge

\* C5: for every input for which calculate returns an outcome, net_income is
\* the integer income - expenses - social_security_taxes - income_taxes,
\* negative or not, with no wrap-around.
C5_NetIncomeExact ==
  result.kind = "Ok" =>
    result.net_income =
      WSub(WSub(WSub(input.income, input.expenses), result.social_security_taxes),
           result.income_taxes)

\* C6: net income is monotonically non-decreasing in gross income: of two
\* calls that differ only in income and both succeed, the one with the higher
\* income returns no lower net income.
C6_NetIncomeMonotone ==
  [][(result.kind = "Ok" /\ result'.kind = "Ok")
       => WLe(result.net_income, result'.net_income)]_vars

-----------------------------------------------------------------------------
(* income_tax::calculate (TaxSpec).                                         *)

\* C7: the income tax total (base tax plus solidarity surtax) is
\* monotonically non-decreasing in taxable income, with and without
\* splitting: every call with a higher taxable income returns no lower total.
C7_TaxMonotone == [][WLe(taxes.v, taxes'.v)]_vars

\* Calls with rising taxable incomes have reached a total that includes a
\* surtax, with and without splitting.
C7_Witness ==
  /\ offset = MaxOffset
  /\ WLt(<<0, 0>>, taxes.tax_solidarity)
  /\ taxes.v = WAdd(taxes.tax, taxes.tax_solidarity)

\* The upper limit of the first tax range, whose rates are 0.
first_upper_limit == create(year).income_tax.tax_ranges[1].upper_limit

\* C8: for every taxable income below the first bracket's upper limit (the
\* first bracket's rates being 0) the income tax is 0, with and without
\* income splitting.
C8_ZeroBelowFirstLimit ==
  (/\ IsZero(create(year).income_tax.tax_ranges[1].rate_min)
   /\ IsZero(create(year).income_tax.tax_ranges[1].rate_max)
   /\ WLt(taxable_income, first_upper_limit))
    => (taxes.tax = <<0, 0>> /\ taxes.v = <<0, 0>>)

\* The last taxable income below the limit was taxed, after calls below it.
C8_Witness ==
  /\ WAdd(taxable_income, W(1)) = first_upper_limit
  /\ offset > 0
  /\ taxes.v = <<0, 0>>

\* C9: splitting: for every taxable income x the base income tax with
\* splitting is twice the base income tax without splitting on x / 2
\* (rounded down).
C9_Splitting ==
  together =>
    taxes.tax =
      WMulSmall(calculate_income_tax(create(year).income_tax,
                                     WHalf(taxable_income), FALSE).v, 2)

\* A split call on an odd taxable income with a tax to pay.
C9_Witness ==
  /\ together
  /\ taxable_income[2] % 2 = 1
  /\ offset > 0
  /\ WLt(<<0, 0>>, taxes.tax)

\* rate and max_percentage of the surtax, in thousandths.
RatePermille == 55

MaxPermille == 119

\* The exemption level of the call: doubled with splitting.
exemption_of_call ==
  IF together
    THEN WMulSmall(create(year).income_tax.solidary_addition_config.exemption_level, 2)
    ELSE create(year).income_tax.solidary_addition_config.exemption_level

\* C10: the surtax is 0 whenever the base tax is below the exemption level
\* (doubled when married); at or above it the surtax exceeds neither
\* (tax - exemption) * max_percentage nor tax * rate: it is the smaller of the
\* two, truncated to an integer.  (The smaller of the two is taken times 1000.)
C10_SurtaxExact ==
  IF WLt(taxes.tax, exemption_of_call)
    THEN taxes.tax_solidarity = <<0, 0>>
    ELSE \E bound \in {WMin(WMulSmall(taxes.tax, RatePermille),
                            WMulSmall(WSub(taxes.tax, exemption_of_call), MaxPermille))} :
           /\ WLe(WMulSmall(taxes.tax_solidarity, 1000), bound)
           /\ WLt(bound, WMulSmall(WAdd(taxes.tax_solidarity, W(1)), 1000))

-----------------------------------------------------------------------------
(* social_security::calculate (SocialSpec).                                 *)

\* C11: the social-insurance computation fails with an input-range error
\* whenever the fixed monthly retirement amount times 12 is above the u32
\* range; it never wraps around or aborts; otherwise the retirement premium
\* with a fixed amount is exactly that amount times 12, whatever the income.
C11_FixedRetirementRange ==
  input.fixed_retirement # None =>
    IF WLt(U32_MAX, WMulSmall(input.fixed_retirement, 12))
      THEN social.kind = "Err"
      ELSE /\ social.kind = "Ok"
           /\ F32ToU32(social.retirement_insurance) = WMulSmall(input.fixed_retirement, 12)
           /\ F32FromU32(F32ToU32(social.retirement_insurance)) = social.retirement_insurance

\* min(yearly income, monthly cap * 12) in f32.
capped_income(yearly_income, max_monthly_value) ==
  F32Min(F32FromU32(yearly_income), F32Mul(max_monthly_value, Dec(12, 1)))

\* C12: a self-employed person's unemployment premium is always 0 and the
\* total is that of the other two premiums; an employed person pays half the
\* retirement rate, half the unemployment rate and half of (general +
\* additional + nursing rate) plus the full nursing surcharge, each on
\* min(yearly income, monthly cap * 12); a self-employed person pays the full
\* retirement rate and reduced general + additional + nursing + nursing
\* surcharge for health.  (Sums and products are those of f32.)
C12_PremiumRates ==
  social.kind = "Ok" =>
    \E c \in {create(year)} :
      IF input.self_employed
        THEN /\ IsZero(social.unemployment_insurance)
             /\ social.v = F32ToU32(F32Add(social.health_insurance,
                                           social.retirement_insurance))
             /\ input.fixed_retirement = None =>
                  social.retirement_insurance =
                    F32Mul(capped_income(input.income, c.retirement_insurance.max_income),
                           c.retirement_insurance.premium)
             /\ social.health_insurance =
                  F32Mul(capped_income(
                           WMax(input.income,
                                F32ToU32(F32Mul(c.health_insurance.min_income,
                                                Dec(12, 1)))),
                           c.health_insurance.max_income),
                         F32Add(F32Add(F32Add(
                           c.health_insurance.premium_general_reduced,
                           c.health_insurance.premium_additional),
                           c.health_insurance.premium_nursing),
                           c.health_insurance.premium_nursing_additional))
        ELSE /\ social.unemployment_insurance =
                  F32Mul(capped_income(input.income, c.unemployment_insurance.max_income),
                         F32Div(c.unemployment_insurance.premium, Dec(2, 1)))
             /\ input.fixed_retirement = None =>
                  social.retirement_insurance =
                    F32Mul(capped_income(input.income, c.retirement_insurance.max_income),
                           F32Div(c.retirement_insurance.premium, Dec(2, 1)))
             /\ social.health_insurance =
                  F32Mul(capped_income(input.income, c.health_insurance.max_income),
                         F32Add(F32Div(F32Add(F32Add(c.health_insurance.premium_general,
                                                     c.health_insurance.premium_additional),
                                              c.health_insurance.premium_nursing),
                                       Dec(2, 1)),
                                c.health_insurance.premium_nursing_additional))

\* An employed person without a fixed retirement rate, above the yearly limit
\* of the health insurance, paid all three premiums.
C12_Witness ==
  /\ social.kind = "Ok"
  /\ ~input.self_employed
  /\ input.fixed_retirement = None
  /\ offset > 0
  /\ F32Lt(F32Mul(create(year).health_insurance.max_income, Dec(12, 1)),
           F32FromU32(input.income))
  /\ ~IsZero(social.unemployment_insurance)
  /\ WLt(<<0, 0>>, social.v)

\* The decimal values of config.rs that the total of a self-employed person
\* depends on, as integers: min_income in hundredths, the health rate
\* (reduced general + additional + nursing + nursing surcharge) in ten
\* thousandths, the retirement rate in thousandths, the yearly limits.
exact_self_employed(y) ==
  IF y = 2025
    THEN [min_income_cents |-> 124832, health_rate |-> 1400 + 245 + 360 + 60,
          health_limit |-> 66150, retirement_rate |-> 186, retirement_limit |-> 96600]
    ELSE [min_income_cents |-> 117833, health_rate |-> 1400 + 120 + 340 + 60,
          health_limit |-> 62100, retirement_rate |-> 186, retirement_limit |-> 90600]

\* min(max(income, min_income * 12), max_income * 12) * health_rate
\* + min(income, max_income * 12) * retirement_rate, in millionths.
exact_total_millionths(e, income) ==
  WAdd(WMulSmall(WMin(WMax(WMulSmall(income, 100), W(e.min_income_cents * 12)),
                      W(e.health_limit * 100)),
                 e.health_rate),
       WMulSmall(WMulSmall(WMin(income, W(e.retirement_limit)), e.retirement_rate),
                 1000))

\* C13: for a self-employed person the health premium is calculated on
\* max(income, min_income * 12), min_income * 12 unrounded, and the premiums
\* are summed and truncated once: the total is trunc(min(max(income,
\* min_income * 12), max_income * 12) * health_rate + retirement +
\* unemployment), for every income (here: without a fixed retirement rate).
C13_SelfEmployedTotal ==
  (social.kind = "Ok" /\ input.self_employed /\ input.fixed_retirement = None) =>
    \E exact \in {exact_total_millionths(exact_self_employed(year), input.income)} :
      /\ WLe(WMulSmall(WMulSmall(social.v, 1000), 1000), exact)
      /\ WLt(exact, WMulSmall(WMulSmall(WAdd(social.v, W(1)), 1000), 1000))

-----------------------------------------------------------------------------
(* calculate (Spec), continued.                                             *)

\* C14: whenever expenses plus the social-insurance total is at least the
\* gross income, income_taxes is 0 (the taxable income is 0) and net_income is
\* income - expenses - social_security_taxes; an employed person with income
\* 0 and no fixed retirement rate has social_security_taxes 0 and net_income
\* -expenses.
C14_NoTaxableIncome ==
  result.kind = "Ok" =>
    /\ WLe(input.income, WAdd(input.expenses, result.social_security_taxes)) =>
         /\ result.income_taxes = <<0, 0>>
         /\ result.net_income =
              WSub(WSub(input.income, input.expenses), result.social_security_taxes)
    /\ (input.income = <<0, 0>> /\ ~input.self_employed
        /\ input.fixed_retirement = None) =>
         /\ result.social_security_taxes = <<0, 0>>
         /\ result.net_income = WNeg(input.expenses)

-----------------------------------------------------------------------------
(* income_tax::calculate (TaxSpec), continued.                              *)

\* C15: the income-tax computation does not overflow for any taxable income
\* up to u32::MAX, with or without splitting: the base tax, the doubled tax
\* of a split, the doubled exemption level and base tax plus surtax fit u32,
\* and the result at u32::MAX is no small wrapped value (it is above
\* 2000000000, as test_with_maximum_input_value has it).
C15_NoOverflow ==
  /\ ~taxes.ovf
  /\ InU32(taxes.tax)
  /\ together =>
       InU32(WMulSmall(calculate_income_tax(create(year).income_tax,
                                            WHalf(taxable_income), FALSE).v, 2))
  /\ InU32(WMulSmall(create(year).income_tax.solidary_addition_config.exemption_level, 2))
  /\ InU32(WAdd(taxes.tax, taxes.tax_solidarity))
  /\ taxes.v = WAdd(taxes.tax, taxes.tax_solidarity)
  /\ taxable_income = U32_MAX => WLt(W(2000000000), taxes.v)

\* The call with u32::MAX was made, after calls with the incomes below it.
C15_Witness ==
  /\ taxable_income = U32_MAX
  /\ offset > 0
  /\ together
  /\ WLt(W(2000000000), taxes.v)

\* The rates of the tax ranges as exact ten-thousandths, <<rate_min, rate_max>>
\* for each range (the same in both years).
exact_rates ==
  <<<<0, 0>>, <<1400, 2397>>, <<2397, 4200>>, <<4200, 4200>>, <<4500, 4500>>>>

\* a * c for 0 <= c < 2^16.
WMul16(a, c) == WAdd(WMulSmall(WMulSmall(a, c \div 256), 256), WMulSmall(a, c % 256))

\* The part of the income inside a range: clamp(income - lower_limit, 0, width).
taxed_portion(income, tax_range) ==
  IF WLe(income, tax_range.lower_limit) THEN <<0, 0>>
  ELSE WMin(WSub(income, tax_range.lower_limit),
            WSub(tax_range.upper_limit, tax_range.lower_limit))

\* The ranges with rising rate that the income ends in: there p / width is no
\* whole number.  The ranges are adjacent, so there is at most one.
partly_taxed(tax_ranges, income) ==
  {i \in 1..Len(tax_ranges) :
     /\ exact_rates[i][1] # exact_rates[i][2]
     /\ taxed_portion(income, tax_ranges[i]) # <<0, 0>>
     /\ taxed_portion(income, tax_ranges[i]) # WSub(tax_ranges[i].upper_limit,
                                                    tax_ranges[i].lower_limit)}

\* The common denominator of the sum is 20000 * scale: the width of the
\* partly taxed range, or 1.
exact_scale(tax_ranges, income) ==
  IF partly_taxed(tax_ranges, income) = {} THEN 1
  ELSE LET i == CHOOSE j \in partly_taxed(tax_ranges, income) : TRUE
       IN  WSub(tax_ranges[i].upper_limit, tax_ranges[i].lower_limit)[2]

\* p * (rate_min + (p / width) * (rate_max - rate_min) / 2) of range i, times
\* 20000 * scale.  In the partly taxed range scale = width, and the product is
\* p * (2 * width * rate_min + p * (rate_max - rate_min)) ten-thousandths; in
\* every other range p / width * (rate_max - rate_min) = rate_max - rate_min
\* or the rate does not rise, and the product is
\* p * (rate_min + rate_max) * scale.
exact_range_tax(tax_ranges, i, income, scale) ==
  LET p == taxed_portion(income, tax_ranges[i])
  IN  IF i \in partly_taxed(tax_ranges, income)
      THEN WMul16(W(2 * scale * exact_rates[i][1]
                    + p[2] * (exact_rates[i][2] - exact_rates[i][1])), p[2])
      ELSE WMul16(WMulSmall(p, exact_rates[i][1] + exact_rates[i][2]), scale)

RECURSIVE exact_tax_sum(_, _, _, _)
exact_tax_sum(tax_ranges, i, income, scale) ==
  IF i > Len(tax_ranges) THEN <<0, 0>>
  ELSE WAdd(exact_range_tax(tax_ranges, i, income, scale),
            exact_tax_sum(tax_ranges, i + 1, income, scale))

\* tax is the sum over all ranges, truncated:
\* tax <= sum < tax + 1, all times 20000 * scale.
is_truncated_sum(tax, tax_ranges, income, scale) ==
  /\ Cardinality(partly_taxed(tax_ranges, income)) <= 1
  /\ WLe(WMul16(WMulSmall(tax, 20000), scale),
         exact_tax_sum(tax_ranges, 1, income, scale))
  /\ WLt(exact_tax_sum(tax_ranges, 1, income, scale),
         WMul16(WMulSmall(WAdd(tax, W(1)), 20000), scale))

\* C16: the base income tax is the sum over all ranges of
\* p * (rate_min + (p / width) * (rate_max - rate_min) / 2), with
\* p = clamp(income - lower_limit, 0, width), truncated once after the last
\* range; a split call takes half the income and doubles the truncated tax.
C16_BaseTaxExact ==
  \E tax_ranges \in {create(year).income_tax.tax_ranges} :
    IF together
    THEN /\ taxes.tax = WMulSmall(WHalf(taxes.tax), 2)
         /\ is_truncated_sum(WHalf(taxes.tax), tax_ranges, WHalf(taxable_income),
                             exact_scale(tax_ranges, WHalf(taxable_income)))
    ELSE is_truncated_sum(taxes.tax, tax_ranges, taxable_income,
                          exact_scale(tax_ranges, taxable_income))

-----------------------------------------------------------------------------
(* calculate (Spec): the integers of the outcome.                           *)

\* C17: whenever calculate returns an outcome, its gross_income is the income
\* of the input, the same integer, also for an income above i32::MAX whose
\* difference to the expenses is not.
C17_GrossIncomeIsIncome ==
  result.kind = "Ok" => result.gross_income = input.income

\* max(0, income - expenses - social security) as an integer.
exact_taxable_income(tax_data, social_security) ==
  IF WLt(WAdd(social_security, tax_data.expenses), tax_data.income)
    THEN WSub(tax_data.income, WAdd(social_security, tax_data.expenses))
    ELSE <<0, 0>>

\* C18: for every input that passes the size check of calculate (and whose
\* social security total is computed), the u32 sum of the social security
\* total and the expenses does not overflow, and the taxable income is
\* max(0, income - expenses - social security), for all expenses up to u32::MAX.
C18_DeductionsFit ==
  \E social_security \in {social_security_calculate(create(year).health_insurance,
                                                     create(year).retirement_insurance,
                                                     create(year).unemployment_insurance,
                                                     input)} :
    (~too_large(input) /\ ~(overflow_checks /\ social_security.ovf)) =>
      /\ InU32(WAdd(social_security.v, input.expenses))
      /\ result # Panic
      /\ taxable_income_of(input, social_security.v)
           = exact_taxable_income(input, social_security.v)

=============================================================================
